---- MODULE Spec2Model ----
(***************************************************************************)
(* LEDSpace (src/backend/led_locations.py): the estimated positions of the *)
(* LEDs of a zig-zag strip, kept in a quadtree over the unit square, with  *)
(* three lru-cached queries and a save/restore pair that swaps the         *)
(* quadtree for a plain list so that the object can be pickled.            *)
(*                                                                         *)
(* Numbers.  The program computes with floats; the model computes with     *)
(* exact fixed-point numbers: a coordinate c is the integer c * Unit, and  *)
(* Unit is chosen so that every coordinate a layout within the bounds      *)
(* produces, and every tenth, is an integer.  Distances are compared       *)
(* squared.  Rounding of floats is therefore not modelled.                 *)
(***************************************************************************)
EXTENDS Integers, Sequences, FiniteSets, TLC

\* ------------------------------------------------------------------ bounds
MaxRows == 2
MaxRowLen == 3
MaxMaps == 2
MaxQueries == 2

\* --------------------------------------------------------------- numbers
RECURSIVE Gcd(_, _)
Gcd(a, b) == IF b = 0 THEN a ELSE Gcd(b, a % b)

Lcm(a, b) == (a * b) \div Gcd(a, b)

RECURSIVE LcmUpTo(_)
LcmUpTo(n) == IF n <= 1 THEN 1 ELSE Lcm(n, LcmUpTo(n - 1))

\* 1.0 in fixed point: a multiple of 10 and of every rows * row length.
Unit == Lcm(10, LcmUpTo(MaxRows) * LcmUpTo(MaxRowLen))

Tenth == Unit \div 10

\* Optional[T]: None, or a value wrapped in a one-element tuple.
None == <<>>

Some(v) == <<v>>

Get(o) == o[1]

\* ------------------------------------------------------------------- LED
LED(x, y, index) == [x |-> x, y |-> y, index |-> index]

\* The LEDs of a list as a set.
Range(s) == {s[i] : i \in 1..Len(s)}

\* --------------------------------------------------------------- Quadtree
\* The quadtree is modelled by the sequence of its elements in the order
\* elements() yields them, taken to be the order of insertion.
Quadtree == <<>>

insert(tree, led) == Append(tree, led)

\* A mask is a convex polygon [scale, pts]: pts are its vertices in units of
\* 1 / (Unit * scale).  A point is inside when it lies on the same side of
\* every edge, the boundary included.  The quadtree library (smartquadtree)
\* is not among the sources: the rule is the specification's "every Light
\* with x in [x-w/2, x+w/2] and y in [y-h/2, y+h/2]".
Cross(a, b, px, py) == (b[1] - a[1]) * (py - a[2]) - (b[2] - a[2]) * (px - a[1])

InMask(mask, led) ==
    LET n == Len(mask.pts)
        px == led.x * mask.scale
        py == led.y * mask.scale
        side(i) == Cross(mask.pts[i], mask.pts[(i % n) + 1], px, py)
    IN  \/ \A i \in 1..n : side(i) >= 0
        \/ \A i \in 1..n : side(i) <= 0

\* elements() under the mask set by set_mask(mask); None is no mask.
elements(tree, mask) ==
    IF mask = None THEN tree
    ELSE SelectSeq(tree, LAMBDA led : InMask(Get(mask), led))

\* ------------------------------------------------------ map_LEDs_in_zigzag
\* Every layout within the bounds: 1..MaxRows rows of 1..MaxRowLen LEDs.
AllLayouts == UNION {[1..n -> 1..MaxRowLen] : n \in 1..MaxRows}

\* The layouts the calls below are made with: one LED, one row with two LEDs at
\* the same distance from the centre, one row of three, and two rows.
Layouts == {l \in AllLayouts : l \in {<<1>>, <<2>>, <<3>>, <<2, 3>>}}

row_height(lights_per_row) ==
    IF Len(lights_per_row) = 1 THEN Unit ELSE Unit \div Len(lights_per_row)

zigzag_LED_forward_only(lights_per_row, i, j, index) ==
    LET n == lights_per_row[i + 1]
        rh == row_height(lights_per_row)
        y == (i * rh) + ((((j * Unit) \div n) * rh) \div Unit)
    IN  LED((j * Unit) \div n, y, index)

zigzag_LED_row_end(lights_per_row, i, j, index) ==
    LET n == lights_per_row[i + 1]
        rh == row_height(lights_per_row)
        y == (i * rh) + (((((j + 1) * Unit) \div n) * rh) \div Unit)
    IN  IF i % 2 = 0
        THEN LED(Unit - (((j + 1) * Unit) \div n), y, index)
        ELSE LED((j * Unit) \div n, y, index)

\* The LED of row i, position j (both from 0), as lines 82-88 compute it.
zigzag_LED(lights_per_row, i, j, index) ==
    LET n == lights_per_row[i + 1]
        rh == row_height(lights_per_row)
        y == (i * rh) + ((((j * Unit) \div n) * rh) \div Unit)
    IN  IF i % 2 = 0
        THEN LED(Unit - (((j + 1) * Unit) \div n), y, index)
        ELSE LED((j * Unit) \div n, y, index)

RECURSIVE zigzag_loop(_, _, _, _, _)
zigzag_loop(lights_per_row, i, j, index, tree) ==
    IF i >= Len(lights_per_row) THEN tree
    ELSE IF j >= lights_per_row[i + 1]
         THEN zigzag_loop(lights_per_row, i + 1, 0, index, tree)
         ELSE zigzag_loop(lights_per_row, i, j + 1, index + 1,
                          insert(tree, zigzag_LED(lights_per_row, i, j, index)))

map_LEDs_from_one(lights_per_row) == zigzag_loop(lights_per_row, 0, 0, 1, Quadtree)

\* The quadtree map_LEDs_in_zigzag builds: a fresh one, filled in wiring order.
map_LEDs_in_zigzag(lights_per_row) == zigzag_loop(lights_per_row, 0, 0, 0, Quadtree)

\* -------------------------------------------------------- _mask_for_radius
\* cos and sin of k * (2 pi / 10), k = 0..9, in hundredths, rounded toward
\* zero so that the polygon stays inside the circle it approximates.
CosT == <<100, 80, 30, -30, -80, -100, -80, -30, 30, 80>>

SinT == <<0, 58, 95, 95, 58, 0, -58, -95, -95, -58>>

\* 1.0 of the table: cos 0.
Trig == CosT[1]

\* The number_points points on the circle of radius `radius` around (x, y),
\* by increasing angle from 0.
mask_for_radius(x, y, radius, number_points) ==
    [scale |-> Trig,
     pts |-> [k \in 1..number_points |->
                <<(CosT[k] * radius) + (x * Trig), (SinT[k] * radius) + (y * Trig)>>]]

\* The box mask of get_LEDs_in_area, lines 102-110.
mask_for_area(x, y, width, height) ==
    LET left == x - (width \div 2)
        right == x + (width \div 2)
        bot == y - (height \div 2)
        top == y + (height \div 2)
    IN  [scale |-> 1,
         pts |-> <<<<left, bot>>, <<left, top>>, <<right, top>>, <<right, bot>>>>]

\* -------------------------------------------------------------- lru_cache
\* functools.lru_cache(maxsize): entries [key, val], most recently used first.
maxsize == 1000

cache_has(cache, key) == \E i \in 1..Len(cache) : cache[i].key = key

cache_index(cache, key) == CHOOSE i \in 1..Len(cache) : cache[i].key = key

cache_val(cache, key) == cache[cache_index(cache, key)].val

cache_touch_in_place(cache, key) == cache

\* A hit moves the entry to the most recently used end.
cache_touch(cache, key) ==
    LET i == cache_index(cache, key)
    IN  <<cache[i]>> \o SubSeq(cache, 1, i - 1) \o SubSeq(cache, i + 1, Len(cache))

\* A miss stores the result; a full cache drops its least recently used entry.
cache_store(cache, key, val) ==
    LET c == <<[key |-> key, val |-> val]>> \o cache
    IN  IF Len(c) > maxsize THEN SubSeq(c, 1, maxsize) ELSE c

\* ------------------------------------- save / restore (lines 162-184)
\* The two fields of an LEDSpace: [q |-> _quadtree, sv |-> _saved_values],
\* each None or Some(list of LEDs).
RECURSIVE insert_all(_, _, _)
insert_all(tree, values, i) ==
    IF i > Len(values) THEN tree
    ELSE insert_all(insert(tree, values[i]), values, i + 1)

\* restore_quadtree forgetting lines 181-183: the list is cleared and no
\* quadtree is built from it.
restore_without_rebuild(q, sv) ==
    IF sv = None THEN [q |-> q, sv |-> sv, err |-> FALSE]
    ELSE [q |-> q, sv |-> None, err |-> FALSE]

\* restore_quadtree forgetting line 184: the saved list is kept.
restore_keeping_saved(q, sv) ==
    IF sv = None THEN [q |-> q, sv |-> sv, err |-> FALSE]
    ELSE [q |-> Some(insert_all(Quadtree, Get(sv), 1)), sv |-> sv, err |-> FALSE]

restore_quadtree(q, sv) ==
    IF sv = None THEN [q |-> q, sv |-> sv, err |-> FALSE]
    ELSE [q |-> Some(insert_all(Quadtree, Get(sv), 1)), sv |-> None, err |-> FALSE]

\* save_quadtree_values_in_list dropping the quadtree before it copies the
\* elements out: the saved list stays empty.
save_losing_values(q, sv) ==
    IF q = None /\ sv # None THEN [q |-> q, sv |-> sv, err |-> FALSE]
    ELSE IF q = None THEN [q |-> q, sv |-> sv, err |-> TRUE]
    ELSE [q |-> None, sv |-> Some(<<>>), err |-> FALSE]

\* save_quadtree_values_in_list without the early return of lines 167-169.
save_without_guard(q, sv) ==
    IF q = None THEN [q |-> q, sv |-> sv, err |-> TRUE]
    ELSE [q |-> None, sv |-> Some(elements(Get(q), None)), err |-> FALSE]

\* err: the call raises (set_mask on a None quadtree) and changes nothing.
save_quadtree_values_in_list(q, sv) ==
    IF q = None /\ sv # None THEN [q |-> q, sv |-> sv, err |-> FALSE]
    ELSE IF q = None THEN [q |-> q, sv |-> sv, err |-> TRUE]
    ELSE [q |-> None, sv |-> Some(elements(Get(q), None)), err |-> FALSE]

\* ----------------------------------------------------------------- queries
\* The body of a masked query (lines 107-118, 126-137): restore when the
\* quadtree is None, then collect the elements under the mask.
\* A masked query without lines 107-108: a None quadtree reads as empty.
masked_query_no_restore(q, sv, mask) ==
    IF q = None THEN [q |-> q, sv |-> sv, val |-> <<>>, err |-> FALSE]
    ELSE [q |-> q, sv |-> sv, val |-> elements(Get(q), Some(mask)), err |-> FALSE]

masked_query(q, sv, mask) ==
    LET r == IF q = None THEN restore_quadtree(q, sv)
             ELSE [q |-> q, sv |-> sv, err |-> FALSE]
    IN  IF r.q = None
        THEN [q |-> r.q, sv |-> r.sv, val |-> <<>>, err |-> TRUE]
        ELSE [q |-> r.q, sv |-> r.sv, val |-> elements(Get(r.q), Some(mask)),
              err |-> FALSE]

cached_call_recompute(cache, key, q, sv, body) ==
    [q |-> body.q, sv |-> body.sv,
     cache |-> IF body.err \/ cache_has(cache, key) THEN cache
               ELSE cache_store(cache, key, body.val),
     val |-> body.val, hit |-> FALSE, err |-> body.err]

\* A call through lru_cache: `body` is what the wrapped function would do.
\* A raising body stores nothing.
cached_call(cache, key, q, sv, body) ==
    IF cache_has(cache, key)
    THEN [q |-> q, sv |-> sv, cache |-> cache_touch(cache, key),
          val |-> cache_val(cache, key), hit |-> TRUE, err |-> FALSE]
    ELSE [q |-> body.q, sv |-> body.sv,
          cache |-> IF body.err THEN cache ELSE cache_store(cache, key, body.val),
          val |-> body.val, hit |-> FALSE, err |-> body.err]

\* key = <<x, y, width, height>>
get_LEDs_in_area(q, sv, cache, key) ==
    cached_call(cache, key, q, sv,
                masked_query(q, sv, mask_for_area(key[1], key[2], key[3], key[4])))

number_points == 10

\* key = <<x, y, radius>>
get_LEDs_in_radius(q, sv, cache, key) ==
    cached_call(cache, key, q, sv,
                masked_query(q, sv, mask_for_radius(key[1], key[2], key[3], number_points)))

\* distance_formula, squared, in units of 1 / Unit^2.
distance_formula(x1, y1, x2, y2) == ((x2 - x1) * (x2 - x1)) + ((y2 - y1) * (y2 - y1))

no_distance == 9999999

\* The scan of lines 150-158; st = [closest, closest_distance].
RECURSIVE closest_scan(_, _, _, _, _, _)
closest_scan(results, i, x, y, max_distance, st) ==
    IF i > Len(results) THEN st
    ELSE LET led == results[i]
             distance == distance_formula(x, y, led.x, led.y)
         IN  IF distance > max_distance * max_distance
             THEN closest_scan(results, i + 1, x, y, max_distance, st)
             ELSE IF st.closest = None \/ distance < st.closest_distance
                  THEN closest_scan(results, i + 1, x, y, max_distance,
                                    [closest |-> Some(led), closest_distance |-> distance])
                  ELSE closest_scan(results, i + 1, x, y, max_distance, st)

closest_of(results, x, y, max_distance) ==
    LET st == closest_scan(results, 1, x, y, max_distance,
                           [closest |-> None, closest_distance |-> no_distance])
    IN  IF st.closest = None THEN None ELSE Some(Get(st.closest).index)

\* The box get_closest_LED_index asks get_LEDs_in_area for (line 148).
area_key_of(key) == <<key[1], key[2], key[3] * 2, key[3] * 2>>

\* key = <<x, y, max_distance>>; the inner call goes through the area cache.
get_closest_LED_index(q, sv, area, closest, key) ==
    IF cache_has(closest, key)
    THEN [q |-> q, sv |-> sv, area |-> area, closest |-> cache_touch(closest, key),
          val |-> cache_val(closest, key), hit |-> TRUE, inner_hit |-> FALSE,
          err |-> FALSE]
    ELSE LET a == get_LEDs_in_area(q, sv, area, area_key_of(key))
             v == closest_of(a.val, key[1], key[2], key[3])
         IN  [q |-> a.q, sv |-> a.sv, area |-> a.cache,
              closest |-> IF a.err THEN closest ELSE cache_store(closest, key, v),
              val |-> IF a.err THEN None ELSE v, hit |-> FALSE, inner_hit |-> a.hit,
              err |-> a.err]

\* ------------------------------------------------------------------ state
VARIABLES
    quadtree,       \* LEDSpace._quadtree: None or Some(elements)
    saved_values,   \* LEDSpace._saved_values: None or Some(list)
    area_cache,     \* lru_cache of get_LEDs_in_area
    radius_cache,   \* lru_cache of get_LEDs_in_radius
    closest_cache,  \* lru_cache of get_closest_LED_index
    ret,            \* the last call: its name, arguments, outcome, and the
                    \* two fields as they were when it was made
    mapped,         \* the layout of the last map_LEDs_in_zigzag call, or None
    maps,           \* number of map_LEDs_in_zigzag calls made
    queries,        \* number of query calls made
    probe,          \* the query a caller repeats: its kind and arguments, the
                    \* kind of the calls made in between, the value its first
                    \* call returned and the time of its last call
    ceiling,        \* the Ceiling object's fields, or None when there is none
    cret,           \* the last call made on the Ceiling, or None
    frames,         \* the with_* helpers running: old_indexing of each, outermost first
    objects         \* number of strategy and LEDSpace objects constructed so far

vars == <<quadtree, saved_values, area_cache, radius_cache, closest_cache,
          ret, mapped, maps, queries>>

\* What a run that uses the LEDSpace alone leaves as it is.
others == <<probe, ceiling, cret, frames, objects>>

NoProbe == [kind |-> "none", fill |-> "none", key |-> <<>>, val |-> <<>>, used |-> 0]

\* The arguments the callers pass: <<x, y, max_distance>> probes, the boxes
\* get_closest_LED_index derives from them, and one radius query.
ClosestKeys == {<<0, 6 * Tenth, Tenth>>, <<5 * Tenth, 5 * Tenth, 5 * Tenth>>}

AreaKeys == {area_key_of(k) : k \in ClosestKeys}

RadiusKeys == {<<0, 6 * Tenth, 3 * Tenth>>}

Call(op, key, r, hit, inner_hit) ==
    [op |-> op, key |-> key, val |-> r.val, hit |-> hit, inner_hit |-> inner_hit,
     err |-> r.err, pre_q |-> quadtree, pre_sv |-> saved_values]

Init ==
    /\ quadtree = Some(Quadtree)
    /\ saved_values = None
    /\ area_cache = <<>>
    /\ radius_cache = <<>>
    /\ closest_cache = <<>>
    /\ ret = [op |-> "init", key |-> <<>>, val |-> <<>>, hit |-> FALSE,
              inner_hit |-> FALSE, err |-> FALSE,
              pre_q |-> None, pre_sv |-> None]
    /\ mapped = None
    /\ maps = 0
    /\ queries = 0
    /\ probe = NoProbe
    /\ ceiling = None
    /\ cret = None
    /\ frames = <<>>
    /\ objects = 0

\* LEDSpace.map_LEDs_in_zigzag: replaces the quadtree and touches nothing else.
MapLEDsInZigzag(lights_per_row) ==
    /\ maps < MaxMaps
    /\ quadtree' = Some(map_LEDs_in_zigzag(lights_per_row))
    /\ mapped' = Some(lights_per_row)
    /\ maps' = maps + 1
    /\ ret' = Call("map", lights_per_row, [val |-> <<>>, err |-> FALSE], FALSE, FALSE)
    /\ UNCHANGED <<saved_values, area_cache, radius_cache, closest_cache, queries>>
    /\ UNCHANGED others

\* LEDSpace.save_quadtree_values_in_list
SaveQuadtreeValuesInList ==
    LET r == save_quadtree_values_in_list(quadtree, saved_values)
    IN  /\ quadtree' = r.q
        /\ saved_values' = r.sv
        /\ ret' = Call("save", <<>>, [val |-> <<>>, err |-> r.err], FALSE, FALSE)
        /\ UNCHANGED <<area_cache, radius_cache, closest_cache, mapped, maps, queries>>
        /\ UNCHANGED others

\* LEDSpace.restore_quadtree
RestoreQuadtree ==
    LET r == restore_quadtree(quadtree, saved_values)
    IN  /\ quadtree' = r.q
        /\ saved_values' = r.sv
        /\ ret' = Call("restore", <<>>, [val |-> <<>>, err |-> r.err], FALSE, FALSE)
        /\ UNCHANGED <<area_cache, radius_cache, closest_cache, mapped, maps, queries>>
        /\ UNCHANGED others

\* LEDSpace.clear_caches
ClearCaches ==
    /\ area_cache' = <<>>
    /\ closest_cache' = <<>>
    /\ radius_cache' = <<>>
    /\ ret' = Call("clear", <<>>, [val |-> <<>>, err |-> FALSE], FALSE, FALSE)
    /\ UNCHANGED <<quadtree, saved_values, mapped, maps, queries>>
    /\ UNCHANGED others

\* LEDSpace.get_LEDs_in_area
GetLEDsInArea(key) ==
    LET r == get_LEDs_in_area(quadtree, saved_values, area_cache, key)
    IN  /\ queries < MaxQueries
        /\ quadtree' = r.q
        /\ saved_values' = r.sv
        /\ area_cache' = r.cache
        /\ queries' = queries + 1
        /\ ret' = Call("area", key, r, r.hit, FALSE)
        /\ UNCHANGED <<radius_cache, closest_cache, mapped, maps>>
        /\ UNCHANGED others

\* LEDSpace.get_LEDs_in_radius
GetLEDsInRadius(key) ==
    LET r == get_LEDs_in_radius(quadtree, saved_values, radius_cache, key)
    IN  /\ queries < MaxQueries
        /\ quadtree' = r.q
        /\ saved_values' = r.sv
        /\ radius_cache' = r.cache
        /\ queries' = queries + 1
        /\ ret' = Call("radius", key, r, r.hit, FALSE)
        /\ UNCHANGED <<area_cache, closest_cache, mapped, maps>>
        /\ UNCHANGED others

\* LEDSpace.get_closest_LED_index
GetClosestLEDIndex(key) ==
    LET r == get_closest_LED_index(quadtree, saved_values, area_cache, closest_cache, key)
    IN  /\ queries < MaxQueries
        /\ quadtree' = r.q
        /\ saved_values' = r.sv
        /\ area_cache' = r.area
        /\ closest_cache' = r.closest
        /\ queries' = queries + 1
        /\ ret' = Call("closest", key, r, r.hit, r.inner_hit)
        /\ UNCHANGED <<radius_cache, mapped, maps>>
        /\ UNCHANGED others

Next ==
    \/ \E lights_per_row \in Layouts : MapLEDsInZigzag(lights_per_row)
    \/ SaveQuadtreeValuesInList
    \/ RestoreQuadtree
    \/ ClearCaches
    \/ \E key \in AreaKeys : GetLEDsInArea(key)
    \/ \E key \in RadiusKeys : GetLEDsInRadius(key)
    \/ \E key \in ClosestKeys : GetClosestLEDIndex(key)

Spec == Init /\ [][Next]_<<vars, others>>

\* ----------------------------------------------------------- vocabulary
Attached == quadtree # None /\ saved_values = None

Detached == quadtree = None /\ saved_values # None

WasDetached == ret.pre_q = None /\ ret.pre_sv # None

LightsOf(o) == IF o = None THEN {} ELSE Range(Get(o))

\* Every Light the index holds, in the structure or in the saved list.
HeldLights(q, sv) == LightsOf(q) \cup LightsOf(sv)

\* The Lights a query reads: the structure's, or the saved list's when the
\* structure is absent and has to be rebuilt first.
CurrentLights == IF quadtree # None THEN LightsOf(quadtree) ELSE LightsOf(saved_values)

\* The closed box of a queryBox key <<x, y, w, h>>.
InBox(led, key) ==
    /\ key[1] - (key[3] \div 2) <= led.x
    /\ led.x <= key[1] + (key[3] \div 2)
    /\ key[2] - (key[4] \div 2) <= led.y
    /\ led.y <= key[2] + (key[4] \div 2)

\* ------------------------------------------------------------------ claims

\* C1: right after any map_LEDs_in_zigzag call none of the three caches holds
\* an entry (every entry present then was populated before the call).
C1_MapInvalidatesCaches ==
    ret.op = "map" =>
        /\ area_cache = <<>>
        /\ radius_cache = <<>>
        /\ closest_cache = <<>>

\* C2: queryBox returns exactly the Lights of the most recently mapped layout
\* that lie in the closed box, whatever was mapped and queried before.
C2_QueryBoxOfLatestLayout ==
    (ret.op = "area" /\ mapped # None) =>
        Range(ret.val) =
            {led \in Range(map_LEDs_in_zigzag(Get(mapped))) : InBox(led, ret.key)}

\* C3: once a layout L is mapped, the Lights the index holds (structure and
\* saved list together) are exactly those of L until the next mapping.
C3_MapDiscardsPriorContent ==
    mapped # None =>
        HeldLights(quadtree, saved_values) = Range(map_LEDs_in_zigzag(Get(mapped)))

\* C4: the index is always either attached (structure, no saved list) or
\* detached (saved list, no structure).
C4_TwoStateLifecycle == Attached \/ Detached

\* The Lights a call of <<x, y, max_distance>> may return: those no farther
\* than max_distance.
Within(led, key) ==
    distance_formula(key[1], key[2], led.x, led.y) <= key[3] * key[3]

\* The list a query scans, in scan order.
ScanOrder == IF quadtree # None THEN Get(quadtree) ELSE Get(saved_values)

\* C5: nearestIndex never returns the index of a Light farther than
\* max_distance, and returns None when no Light is within max_distance.
C5_ClosestWithinMaxDistance ==
    (ret.op = "closest" /\ ~ret.err) =>
        /\ ret.val # None =>
              \A led \in CurrentLights : led.index = Get(ret.val) => Within(led, ret.key)
        /\ (~\E led \in CurrentLights : Within(led, ret.key)) => ret.val = None

\* The index of the first Light of `scan` at minimum distance from the point
\* of `key`.
IsFirstNearest(scan, key, index) ==
    LET d(i) == distance_formula(key[1], key[2], scan[i].x, scan[i].y)
    IN  \E i \in 1..Len(scan) :
            /\ scan[i].index = index
            /\ \A j \in 1..Len(scan) : d(i) <= d(j)
            /\ \A j \in 1..(i - 1) : d(j) > d(i)

\* C6: when some Light is within max_distance (the boundary included),
\* nearestIndex returns the index of a Light at minimum distance, the first in
\* scan order on a tie; for layout [2,3], nearestIndex(0.0, 0.6, 0.1) is 2.
C6_ClosestIsNearest ==
    (ret.op = "closest" /\ ~ret.err /\ \E led \in CurrentLights : Within(led, ret.key)) =>
        /\ ret.val # None
        /\ IsFirstNearest(ScanOrder, ret.key, Get(ret.val))
        /\ (ret.key = <<0, 6 * Tenth, Tenth>> /\ ScanOrder = map_LEDs_in_zigzag(<<2, 3>>))
              => ret.val = Some(2)

\* C5 and C6 for the calls that consult the point structure (neither the
\* closest cache nor the area cache answers).
ClosestComputedIsNearest ==
    (ret.op = "closest" /\ ~ret.hit /\ ~ret.inner_hit) =>
        C5_ClosestWithinMaxDistance /\ C6_ClosestIsNearest

\* What each query would return from fields q, sv and the present caches.
AreaAnswer(q, sv, key) ==
    LET r == get_LEDs_in_area(q, sv, area_cache, key) IN <<r.err, Range(r.val)>>

RadiusAnswer(q, sv, key) ==
    LET r == get_LEDs_in_radius(q, sv, radius_cache, key) IN <<r.err, Range(r.val)>>

ClosestAnswer(q, sv, key) ==
    LET r == get_closest_LED_index(q, sv, area_cache, closest_cache, key)
    IN  <<r.err, r.val>>

SameAnswers(q1, sv1, q2, sv2) ==
    /\ \A key \in AreaKeys : AreaAnswer(q1, sv1, key) = AreaAnswer(q2, sv2, key)
    /\ \A key \in RadiusKeys : RadiusAnswer(q1, sv1, key) = RadiusAnswer(q2, sv2, key)
    /\ \A key \in ClosestKeys : ClosestAnswer(q1, sv1, key) = ClosestAnswer(q2, sv2, key)

\* The Lights the index serves: the structure's when present, else the list's.
Served(q, sv) == IF q # None THEN LightsOf(q) ELSE LightsOf(sv)

C8_DetachIdempotent ==
    /\ (ret.op = "save" /\ WasDetached) =>
          /\ ~ret.err
          /\ quadtree = None
          /\ saved_values = ret.pre_sv
    /\ LET once == save_quadtree_values_in_list(quadtree, saved_values)
       IN  save_quadtree_values_in_list(once.q, once.sv) = once

C8_Witness ==
    /\ ret.op = "save"
    /\ WasDetached
    /\ Len(Get(saved_values)) >= 2

\* C9: reattach on a detached index rebuilds the structure with exactly the
\* Lights of the saved list and clears the list; with nothing saved it leaves
\* both fields as they are.
C9_Reattach ==
    ret.op = "restore" =>
        /\ ~ret.err
        /\ WasDetached =>
              /\ quadtree # None
              /\ Len(Get(quadtree)) = Len(Get(ret.pre_sv))
              /\ LightsOf(quadtree) = LightsOf(ret.pre_sv)
              /\ saved_values = None
        /\ ret.pre_sv = None =>
              /\ quadtree = ret.pre_q
              /\ saved_values = None

C9_Witness ==
    /\ ret.op = "restore"
    /\ WasDetached
    /\ Len(Get(quadtree)) = 5

\* A query step taken on a detached index: it does not raise, returns what
\* the same call returns on the reattached index, and leaves the index
\* attached when it was computed.  `computed` says when a
\* get_closest_LED_index call counts as computed: on every miss of its own
\* cache (through_area = FALSE), or only when the get_LEDs_in_area call it
\* makes misses too (through_area = TRUE).
QueryOnDetached(through_area) ==
    Detached =>
        LET att == restore_quadtree(quadtree, saved_values)
            attached_after == quadtree' # None /\ saved_values' = None
        IN  /\ \A key \in AreaKeys : GetLEDsInArea(key) =>
                  /\ ~ret'.err
                  /\ ret'.val = get_LEDs_in_area(att.q, att.sv, area_cache, key).val
                  /\ ~ret'.hit => attached_after
            /\ \A key \in RadiusKeys : GetLEDsInRadius(key) =>
                  /\ ~ret'.err
                  /\ ret'.val = get_LEDs_in_radius(att.q, att.sv, radius_cache, key).val
                  /\ ~ret'.hit => attached_after
            /\ \A key \in ClosestKeys : GetClosestLEDIndex(key) =>
                  /\ ~ret'.err
                  /\ ret'.val = get_closest_LED_index(att.q, att.sv, area_cache,
                                                      closest_cache, key).val
                  /\ (~ret'.hit /\ (through_area => ~ret'.inner_hit)) => attached_after
                  /\ (through_area /\ ~ret'.hit /\ ret'.inner_hit) =>
                        (quadtree' = None /\ saved_values' = saved_values)

\* C10: a query on a detached index does not fail, returns what it returns on
\* the attached index, and on a cache miss leaves the index attached with the
\* saved list cleared.
C10_QueryOnDetachedReattaches == [][QueryOnDetached(FALSE)]_vars

\* C10, amended: as above, but a get_closest_LED_index miss whose
\* get_LEDs_in_area call is a cache hit never consults the structure and
\* leaves the index detached; the index is attached afterwards when that
\* inner call misses too.
C10_QueryOnDetachedAmended == [][QueryOnDetached(TRUE)]_vars

C10_Witness ==
    /\ ret.op = "closest"
    /\ WasDetached
    /\ ~ret.hit
    /\ ret.inner_hit
    /\ Detached
    /\ ret.val # None

\* ------------------------------------------- repeated queries on one index
\* A caller makes one query, then queries with arguments never used before,
\* and at some point makes the first query again.

\* Number of further calls the caller makes after repeating the first query.
MaxAfter == 1

\* Calls with new arguments the caller makes at most: enough to fill a cache
\* and push one entry out of it.
MaxFill == maxsize + 1

ProbeKinds == {<<"area", "area">>, <<"radius", "radius">>,
               <<"closest", "closest">>, <<"area", "closest">>}

ProbeLayout == <<2, 3>>

\* The arguments of the repeated query.
ProbeKey(kind) ==
    IF kind = "area" THEN <<0, 6 * Tenth, 2 * Tenth, 2 * Tenth>>
    ELSE IF kind = "radius" THEN <<0, 6 * Tenth, 3 * Tenth>>
    ELSE <<0, 6 * Tenth, Tenth>>

\* Arguments never used before: the n-th call made looks around its own point.
FillKey(kind, n) ==
    IF kind = "area" THEN <<2 * Unit + n, 0, 2 * Tenth, 2 * Tenth>>
    ELSE <<2 * Unit + n, 0, Tenth>>

\* One query of the given kind on the index, whichever method it is.
query(kind, key) ==
    IF kind = "area" THEN
        LET r == get_LEDs_in_area(quadtree, saved_values, area_cache, key)
        IN  [q |-> r.q, sv |-> r.sv, area |-> r.cache, radius |-> radius_cache,
             closest |-> closest_cache, val |-> r.val, hit |-> r.hit,
             inner_hit |-> FALSE, err |-> r.err]
    ELSE IF kind = "radius" THEN
        LET r == get_LEDs_in_radius(quadtree, saved_values, radius_cache, key)
        IN  [q |-> r.q, sv |-> r.sv, area |-> area_cache, radius |-> r.cache,
             closest |-> closest_cache, val |-> r.val, hit |-> r.hit,
             inner_hit |-> FALSE, err |-> r.err]
    ELSE
        LET r == get_closest_LED_index(quadtree, saved_values, area_cache,
                                       closest_cache, key)
        IN  [q |-> r.q, sv |-> r.sv, area |-> r.area, radius |-> radius_cache,
             closest |-> r.closest, val |-> r.val, hit |-> r.hit,
             inner_hit |-> r.inner_hit, err |-> r.err]

Query(kind, key) ==
    LET r == query(kind, key)
    IN  /\ quadtree' = r.q
        /\ saved_values' = r.sv
        /\ area_cache' = r.area
        /\ radius_cache' = r.radius
        /\ closest_cache' = r.closest
        /\ queries' = queries + 1
        /\ ret' = Call(kind, key, r, r.hit, r.inner_hit)
        /\ UNCHANGED <<mapped, maps, ceiling, cret, frames, objects>>

\* The index is mapped and nothing has been queried.
ProbeInit ==
    /\ quadtree = Some(map_LEDs_in_zigzag(ProbeLayout))
    /\ saved_values = None
    /\ area_cache = <<>>
    /\ radius_cache = <<>>
    /\ closest_cache = <<>>
    /\ ret = [op |-> "map", key |-> ProbeLayout, val |-> <<>>, hit |-> FALSE,
              inner_hit |-> FALSE, err |-> FALSE,
              pre_q |-> Some(Quadtree), pre_sv |-> None]
    /\ mapped = Some(ProbeLayout)
    /\ maps = 1
    /\ queries = 0
    /\ \E k \in ProbeKinds :
          probe = [kind |-> k[1], fill |-> k[2], key |-> ProbeKey(k[1]),
                   val |-> <<>>, used |-> 0]
    /\ ceiling = None
    /\ cret = None
    /\ frames = <<>>
    /\ objects = 0

\* The first call of the query.
FirstCall ==
    /\ queries = 0
    /\ Query(probe.kind, probe.key)
    /\ probe' = [probe EXCEPT !.val = query(probe.kind, probe.key).val]

\* A call with arguments never used before.
FillCall ==
    /\ queries >= 1
    /\ queries <= MaxFill
    /\ probe.used = 0 \/ queries - probe.used <= MaxAfter
    /\ Query(probe.fill, FillKey(probe.fill, queries))
    /\ UNCHANGED probe

\* The first query again.
RepeatCall ==
    /\ queries >= 1
    /\ probe.used = 0
    /\ Query(probe.kind, probe.key)
    /\ probe' = [probe EXCEPT !.used = queries]

\* The caller detaches the index before it repeats the query.
Detach ==
    /\ queries >= 1
    /\ probe.used = 0
    /\ Attached
    /\ SaveQuadtreeValuesInList

ProbeNext == FirstCall \/ FillCall \/ Detach \/ RepeatCall

ProbeSpec == ProbeInit /\ [][ProbeNext]_<<vars, others>>

\* The state right after the caller has repeated its query.
Repeated == probe.used > 0 /\ queries = probe.used + 1

\* Calls made between the first call and the repeat that are of the repeated
\* query's own kind: all of them, or none when the caller made nearestIndex
\* probes between two queryBox calls.
SameKindBetween == IF probe.fill = probe.kind THEN probe.used - 1 ELSE 0

\* Entries the calls in between put into the cache of the repeated query:
\* each of them stores one, a nearestIndex probe through the box it queries.
StoredBetween == probe.used - 1

\* Served from the cache: the first call's members, nothing recomputed, both
\* fields as they were.
RepeatServed ==
    /\ ret.hit
    /\ Range(ret.val) = Range(probe.val)
    /\ quadtree = ret.pre_q
    /\ saved_values = ret.pre_sv

\* C11 as stated: a repeated identical query, with no mapInZigzag or
\* invalidateCache and fewer than 1000 distinct queries of its kind in
\* between, is served from the cache with the first call's membership and
\* without touching the index.
C11_RepeatServedFromCache == Repeated /\ SameKindBetween < maxsize => RepeatServed

\* C11 amended: the same, counting every query that goes through the cache of
\* the repeated one, the boxes queried inside nearestIndex probes included.
C11_RepeatServedAmended == Repeated /\ StoredBetween < maxsize => RepeatServed

\* Once 1000 other entries went through the cache, the repeat is recomputed.
RepeatAfterEvictionRecomputes == Repeated /\ StoredBetween >= maxsize => ~ret.hit

C11_Witness ==
    /\ Repeated
    /\ StoredBetween = maxsize - 1
    /\ probe.fill # probe.kind
    /\ ret.hit
    /\ Detached

\* ---------------------------------------------------- cache bound (C16)
Keys(cache) == {cache[i].key : i \in 1..Len(cache)}

\* When the arguments `key` were last used for a call that went through the
\* cache `name`, counted in calls made before it. Fresh arguments carry the
\* time of their only call; the repeated query's were used first, and again
\* at the repeat in its own cache (a nearestIndex hit does not call queryBox).
LastUse(name, key) ==
    IF key[1] >= 2 * Unit THEN key[1] - 2 * Unit
    ELSE IF name = probe.kind THEN probe.used
    ELSE 0

\* One step seen from one cache: it stays within its bound, and an entry
\* added to the full cache pushes out exactly the least recently used one.
CacheStep(name, old, new) ==
    /\ Len(new) <= maxsize
    /\ Len(old) = maxsize /\ Keys(new) # Keys(old) =>
          LET gone == Keys(old) \ Keys(new)
          IN  /\ Cardinality(gone) = 1
              /\ Cardinality(Keys(new) \ Keys(old)) = 1
              /\ \A e \in gone : \A k \in Keys(old) :
                    LastUse(name, e) <= LastUse(name, k)

\* C16: each of the three caches holds at most 1000 entries, and a new entry
\* added to a full cache evicts the least recently used entry.
C16_CachesBoundedLRU ==
    [][/\ CacheStep("area", area_cache, area_cache')
       /\ CacheStep("radius", radius_cache, radius_cache')
       /\ CacheStep("closest", closest_cache, closest_cache')]_<<vars, others>>

\* The repeated query was used again when its cache was full, then one more
\* entry came in: the repeated query's entry stayed and the oldest of the
\* others went.
C16_Witness ==
    /\ probe.used = maxsize
    /\ queries = maxsize + 2
    /\ cache_has(area_cache, ProbeKey("area"))
    /\ ~cache_has(area_cache, FillKey("area", 1))
    /\ Len(area_cache) = maxsize

\* --------------------------------------------- mapping any layout at all
\* Every list of row counts a caller can pass: empty, and with rows of zero
\* or negative length.
AnyLayouts == UNION {[1..n -> -1..MaxRowLen] : n \in 0..MaxRows}

\* A whole map_LEDs_in_zigzag call. Line 72 replaces the quadtree before
\* anything is computed; an empty list then divides by zero on line 78. A row
\* count below one is an empty range on line 81: the row adds nothing.
map_call(lights_per_row) ==
    IF Len(lights_per_row) = 0
    THEN [q |-> Some(Quadtree), err |-> TRUE]
    ELSE [q |-> Some(map_LEDs_in_zigzag(lights_per_row)), err |-> FALSE]

\* The call is made on a fresh index or on one that holds one of Layouts.
MapAnyLayout(lights_per_row) ==
    LET r == map_call(lights_per_row)
    IN  /\ ret.op = "init" \/ ret.key \in Layouts
        /\ quadtree' = r.q
        /\ mapped' = Some(lights_per_row)
        /\ ret' = Call("map", lights_per_row, [val |-> <<>>, err |-> r.err], FALSE, FALSE)
        /\ UNCHANGED <<saved_values, area_cache, radius_cache, closest_cache,
                       maps, queries>>
        /\ UNCHANGED others

ZigzagNext == \E lights_per_row \in AnyLayouts : MapAnyLayout(lights_per_row)

ZigzagSpec == Init /\ [][ZigzagNext]_<<vars, others>>

\* The last call was a mapping call with this kind of layout.
Positive(lights_per_row) ==
    /\ Len(lights_per_row) > 0
    /\ \A i \in 1..Len(lights_per_row) : lights_per_row[i] > 0

MappedValid == ret.op = "map" /\ Positive(ret.key)

MappedInvalid == ret.op = "map" /\ ~Positive(ret.key)

\* C12: mapInZigzag with an empty layout or one with a non-positive row count
\* fails with an error and leaves the index unmapped: it holds no Lights, or
\* is as it was before the call.
C12_InvalidLayoutFails ==
    MappedInvalid =>
        /\ ret.err
        /\ quadtree = ret.pre_q \/ CurrentLights = {}

RECURSIVE Sum(_)
Sum(s) == IF s = <<>> THEN 0 ELSE s[1] + Sum(Tail(s))

\* Number of Lights wired before row i (rows from 0).
Offset(lights_per_row, i) == Sum(SubSeq(lights_per_row, 1, i))

\* The Lights of the structure, and those among them that lie in the
\* vertical band of row i: y from i/R up to, not including, (i+1)/R.
Lights == LightsOf(quadtree)

InBand(led, lights_per_row, i) ==
    /\ led.y * Len(lights_per_row) >= i * Unit
    /\ led.y * Len(lights_per_row) < (i + 1) * Unit

RowLights(lights_per_row, i) == {led \in Lights : InBand(led, lights_per_row, i)}

\* C13: a layout of positive row lengths maps to exactly sum(layout) Lights
\* with indices 0..N-1, no duplicates, no gaps, in wiring order: row i holds
\* the indices that follow those of the rows below it, and within a row the
\* index grows with the position along the row's rising diagonal.
C13_IndicesInWiringOrder ==
    MappedValid =>
        LET l == ret.key
            N == Sum(l)
        IN  /\ Len(Get(quadtree)) = N
            /\ Cardinality(Lights) = N
            /\ {led.index : led \in Lights} = 0..(N - 1)
            /\ \A i \in 0..(Len(l) - 1) :
                  /\ {led.index : led \in RowLights(l, i)} =
                        Offset(l, i)..(Offset(l, i) + l[i + 1] - 1)
                  /\ \A a, b \in RowLights(l, i) : a.index < b.index => a.y < b.y

C13_Witness ==
    /\ MappedValid
    /\ ret.key = <<2, 3>>
    /\ {led.index : led \in Lights} = 0..4

\* C14: within an even row x strictly decreases as the index grows, within
\* an odd row it strictly increases.
C14_ZigzagDirection ==
    MappedValid =>
        \A i \in 0..(Len(ret.key) - 1) :
            \A a, b \in RowLights(ret.key, i) :
                a.index < b.index =>
                    IF i % 2 = 0 THEN a.x > b.x ELSE a.x < b.x

C14_Witness ==
    /\ MappedValid
    /\ ret.key = <<3, 2>>
    /\ Cardinality(RowLights(ret.key, 0)) = 3
    /\ Cardinality(RowLights(ret.key, 1)) = 2

RadiusPolygon(key) == mask_for_radius(key[1], key[2], key[3], number_points)

\* C17: queryRadius returns exactly the mapped Lights inside the polygon of
\* the 10 circleMask points around (x, y), and so no Light farther than
\* radius from (x, y).
C17_RadiusInsidePolygon ==
    (ret.op = "radius" /\ mapped # None /\ ~ret.err) =>
        /\ Range(ret.val) =
              {led \in Range(map_LEDs_in_zigzag(Get(mapped))) :
                  InMask(RadiusPolygon(ret.key), led)}
        /\ \A led \in Range(ret.val) : Within(led, ret.key)

\* A queryRadius call that consults the structure returns the Lights of the
\* structure inside the polygon, all within radius.
RadiusComputedInsidePolygon ==
    (ret.op = "radius" /\ ~ret.hit /\ ~ret.err) =>
        /\ Range(ret.val) =
              {led \in LightsOf(quadtree) : InMask(RadiusPolygon(ret.key), led)}
        /\ \A led \in Range(ret.val) : Within(led, ret.key)

\* ------------------------------------------------------------ PixelWrapper
\* Number of lights of the strip, at most.
MaxLights == 5

\* runthrough.py: the lit tail.
TAIL_LENGTH == 4

\* (0, 0, 0), and the colours a script writes.
Black == 0

Colors == {1, 2}

\* Python's sequence indexing over n items: the position from 0, negative
\* keys counting from the end, or None where it raises IndexError.
list_index(n, key) ==
    IF key >= 0 /\ key < n THEN Some(key)
    ELSE IF key < 0 /\ key >= -n THEN Some(key + n)
    ELSE None

\* A PixelWrapper: `board` when _pixels is the NeoPixel strip, else
\* _pretend_pixels is the list; buf is the colours of whichever it is;
\* test_display tells whether set_lights_per_row has set _test_display.
init_with_real_board(number_lights) ==
    [board |-> TRUE, buf |-> [i \in 1..number_lights |-> Black], test_display |-> FALSE]

init_for_testing(number_leds) ==
    [board |-> FALSE, buf |-> [i \in 1..number_leds |-> Black], test_display |-> FALSE]

set_lights_per_row(pixel) == [pixel EXCEPT !.test_display = TRUE]

PixelWrapper_getitem(pixel, key) ==
    LET i == list_index(Len(pixel.buf), key)
    IN  IF i = None THEN [val |-> None, err |-> TRUE]
        ELSE [val |-> Some(pixel.buf[Get(i) + 1]), err |-> FALSE]

PixelWrapper_setitem_next(pixel, key, value) ==
    LET i == list_index(Len(pixel.buf), key + 1)
    IN  IF i = None THEN [pixel |-> pixel, err |-> TRUE]
        ELSE [pixel |-> [pixel EXCEPT !.buf[Get(i) + 1] = value],
              err |-> ~pixel.test_display]

\* The write of lines 42-45, then line 47 reads _test_display, an attribute
\* only set_lights_per_row creates: without it the call raises after writing.
PixelWrapper_setitem(pixel, key, value) ==
    LET i == list_index(Len(pixel.buf), key)
    IN  IF i = None THEN [pixel |-> pixel, err |-> TRUE]
        ELSE [pixel |-> [pixel EXCEPT !.buf[Get(i) + 1] = value],
              err |-> ~pixel.test_display]

\* ----------------------------------------------------- indexing strategies
\* A strategy object: its identity, its kind, the layout it was made for and
\* the LEDSpace it holds (None for the two kinds without geometry).
Strategy(id, kind, layout, led_spacing) ==
    [id |-> id, kind |-> kind, layout |-> layout, led_spacing |-> led_spacing]

LinearIndexing(id) == Strategy(id, "linear", None, None)

\* Linear: the key is a raw index, wrapping modulo the number of lights.
LinearIndexing_get(pixel, key) == PixelWrapper_getitem(pixel, key % Len(pixel.buf))

LinearIndexing_set(pixel, key, value) ==
    PixelWrapper_setitem(pixel, key % Len(pixel.buf), value)

\* ------------------------------------------------------------------ Ceiling
\* Ceiling.__init__: on the board (lines 64-81), or in test mode with the
\* wrapper lines 60-63 set up; then lines 83-85. Its first strategy is
\* object 0.
Ceiling(number_lights, test_mode) ==
    [pixels |-> IF test_mode THEN set_lights_per_row(init_for_testing(number_lights))
                ELSE init_with_real_board(number_lights),
     indexing |-> LinearIndexing(0),
     cached_led_spacing |-> None]

\* The LEDSpace part of the state while only the Ceiling is used.
LEDSpaceIdle ==
    /\ quadtree = Some(Quadtree)
    /\ saved_values = None
    /\ area_cache = <<>>
    /\ radius_cache = <<>>
    /\ closest_cache = <<>>
    /\ ret = [op |-> "init", key |-> <<>>, val |-> <<>>, hit |-> FALSE,
              inner_hit |-> FALSE, err |-> FALSE,
              pre_q |-> None, pre_sv |-> None]
    /\ mapped = None
    /\ maps = 0
    /\ queries = 0
    /\ probe = NoProbe

\* The record of a call on the Ceiling.
CeilingCall(op, key, val, err) ==
    [op |-> op, key |-> key, val |-> val, err |-> err, pre |-> ceiling]

LinearInit ==
    /\ LEDSpaceIdle
    /\ \E number_lights \in 1..MaxLights : \E test_mode \in BOOLEAN :
          ceiling = Ceiling(number_lights, test_mode)
    /\ cret = None
    /\ frames = <<>>
    /\ objects = 1

\* The keys runthrough.py passes: indx - i, lines 32-36.
RunthroughKeys(number_lights) ==
    {indx - i : indx \in 0..(number_lights - 1), i \in 0..(TAIL_LENGTH - 1)}

\* The keys given to strips of any length.
AllKeys == (1 - TAIL_LENGTH)..(MaxLights - 1)

\* Ceiling.__getitem__ under the Linear strategy.
CeilingGetItem(key) ==
    LET r == LinearIndexing_get(ceiling.pixels, key)
    IN  /\ key \in RunthroughKeys(Len(ceiling.pixels.buf))
        /\ ceiling.indexing.kind = "linear"
        /\ cret' = CeilingCall("get", key, r.val, r.err)
        /\ UNCHANGED <<vars, probe, ceiling, frames, objects>>

\* Ceiling.__setitem__ under the Linear strategy.
CeilingSetItem(key, value) ==
    LET r == LinearIndexing_set(ceiling.pixels, key, value)
    IN  /\ key \in RunthroughKeys(Len(ceiling.pixels.buf))
        /\ ceiling.indexing.kind = "linear"
        /\ ceiling' = [ceiling EXCEPT !.pixels = r.pixel]
        /\ cret' = CeilingCall("set", key, Some(value), r.err)
        /\ UNCHANGED <<vars, probe, frames, objects>>

LinearNext ==
    \/ \E key \in AllKeys : CeilingGetItem(key)
    \/ \E key \in AllKeys : \E value \in Colors : CeilingSetItem(key, value)

LinearSpec == LinearInit /\ [][LinearNext]_<<vars, others>>

\* The light a key stands for on a strip of n lights: k mod n, from 0.
LightOf(key, n) == CHOOSE m \in 0..(n - 1) : \E q \in -TAIL_LENGTH..1 : key = (q * n) + m

NumberLights == Len(ceiling.pixels.buf)

MaxDepth == 2

\* Strategy and LEDSpace objects constructed at most.
MaxObjects == 4

\* The default layout of the ceiling, and another one a caller passes.
CEILING_ROW_ARRANGEMENT == <<2, 3>>

CeilingLayouts == {l \in AllLayouts : l \in {CEILING_ROW_ARRANGEMENT, <<3>>}}

GeometricKinds == {"cartesian", "polar", "float_cartesian", "float_polar"}

StrategyKinds == {"linear", "row"} \cup GeometricKinds

RowIndexing(id, lights_per_row) == Strategy(id, "row", Some(lights_per_row), None)

\* An LEDSpace object and the layout its geometry was built from.
LEDSpace(id, lights_per_row) == [id |-> id, layout |-> lights_per_row]

\* A geometric strategy's constructor: it reuses the LEDSpace passed in, or
\* builds one from its layout when none is passed.
GeometricIndexing(id, kind, lights_per_row, cached_led_spacing) ==
    Strategy(id, kind, Some(lights_per_row),
             IF cached_led_spacing # None THEN cached_led_spacing
             ELSE Some(LEDSpace(id + 1, lights_per_row)))

\* use_linear, use_row, use_cartesian, use_polar, use_float_cartesian,
\* use_float_polar: a new strategy object each time; the geometric ones are
\* handed _cached_led_spacing and leave their LEDSpace in it.
use(c, kind, lights_per_row, id) ==
    IF kind = "linear" THEN [c EXCEPT !.indexing = LinearIndexing(id)]
    ELSE IF kind = "row" THEN [c EXCEPT !.indexing = RowIndexing(id, lights_per_row)]
    ELSE LET indexing == GeometricIndexing(id, kind, lights_per_row, c.cached_led_spacing)
         IN  [c EXCEPT !.indexing = indexing,
                       !.cached_led_spacing = indexing.led_spacing]

\* Objects a use call constructs.
constructed(c, kind) ==
    IF kind \in GeometricKinds /\ c.cached_led_spacing = None THEN 2 ELSE 1

\* The record of a strategy call: what was asked, the LEDSpace handed to the
\* constructor, the strategy active before, and how the call ended.
StrategyCall(op, kind, lights_per_row, passed, old, raised) ==
    [op |-> op, kind |-> kind, layout |-> lights_per_row, passed |-> passed,
     old |-> old, raised |-> raised]

Passed(kind) == IF kind \in GeometricKinds THEN ceiling.cached_led_spacing ELSE None

StrategyInit ==
    /\ LEDSpaceIdle
    /\ ceiling = Ceiling(MaxLights, FALSE)
    /\ cret = None
    /\ frames = <<>>
    /\ objects = 1

\* Ceiling.use_*: from a script or from inside a block.
Use(kind, lights_per_row) ==
    /\ objects + constructed(ceiling, kind) <= MaxObjects
    /\ kind = "linear" => lights_per_row = CEILING_ROW_ARRANGEMENT
    /\ ceiling' = use(ceiling, kind, lights_per_row, objects)
    /\ objects' = objects + constructed(ceiling, kind)
    /\ cret' = StrategyCall("use", kind, lights_per_row, Passed(kind),
                            ceiling.indexing, FALSE)
    /\ UNCHANGED <<vars, probe, frames>>

\* Ceiling.with_*, up to the call of the block: old_indexing is kept in the
\* helper's frame and the new strategy is in use. with_linear takes no
\* layout and with_row uses the default one.
WithEnter(kind, lights_per_row) ==
    /\ Len(frames) < MaxDepth
    /\ objects + constructed(ceiling, kind) <= MaxObjects
    /\ kind \in {"linear", "row"} => lights_per_row = CEILING_ROW_ARRANGEMENT
    /\ frames' = Append(frames, ceiling.indexing)
    /\ ceiling' = use(ceiling, kind, lights_per_row, objects)
    /\ objects' = objects + constructed(ceiling, kind)
    /\ cret' = StrategyCall("enter", kind, lights_per_row, Passed(kind),
                            ceiling.indexing, FALSE)
    /\ UNCHANGED <<vars, probe>>

\* The block of the innermost helper returns: the helper's last line puts
\* old_indexing back.
BlockReturns ==
    /\ frames # <<>>
    /\ ceiling' = [ceiling EXCEPT !.indexing = frames[Len(frames)]]
    /\ frames' = SubSeq(frames, 1, Len(frames) - 1)
    /\ cret' = StrategyCall("exit", ceiling.indexing.kind, None, None,
                            frames[Len(frames)], FALSE)
    /\ UNCHANGED <<vars, probe, objects>>

\* The block of the innermost helper raises and the exception leaves the
\* `depth` innermost helpers: none of them has a handler, so none of them
\* reaches its last line.
BlockRaises(depth) ==
    /\ depth <= Len(frames)
    /\ frames' = SubSeq(frames, 1, Len(frames) - depth)
    /\ cret' = StrategyCall("exit", ceiling.indexing.kind, None, None,
                            frames[Len(frames) - depth + 1], TRUE)
    /\ UNCHANGED <<vars, probe, ceiling, objects>>

\* Ceiling.prepare_to_send, line 131; line 132 then calls a method the
\* PixelWrapper does not have.
PrepareToSend ==
    /\ ceiling.cached_led_spacing # None
    /\ ceiling' = [ceiling EXCEPT !.cached_led_spacing = None]
    /\ cret' = StrategyCall("prepare_to_send", ceiling.indexing.kind, None, None,
                            ceiling.indexing, TRUE)
    /\ UNCHANGED <<vars, probe, frames, objects>>

StrategyNext ==
    \/ \E kind \in StrategyKinds : \E lights_per_row \in CeilingLayouts :
          Use(kind, lights_per_row)
    \/ \E kind \in StrategyKinds : \E lights_per_row \in CeilingLayouts :
          WithEnter(kind, lights_per_row)
    \/ BlockReturns
    \/ \E depth \in 1..MaxDepth : BlockRaises(depth)
    \/ PrepareToSend

StrategySpec == StrategyInit /\ [][StrategyNext]_<<vars, others>>

\* C19: when a with_* helper is left, by return or by an exception of its
\* block, the active strategy is the object that was active before the call.
C19_HelperRestoresStrategy ==
    (cret # None /\ cret.op = "exit") => ceiling.indexing = cret.old

\* A helper left by return has put the previous strategy back.
HelperReturnRestoresStrategy ==
    (cret # None /\ cret.op = "exit" /\ ~cret.raised) => ceiling.indexing = cret.old

\* C20: a geometric strategy is handed the cached LEDSpace only when that
\* LEDSpace was built from the layout the strategy is constructed for.
C20_CacheHandedForSameLayout ==
    (cret # None /\ cret.op \in {"use", "enter"} /\ cret.passed # None) =>
        Get(cret.passed).layout = cret.layout

\* ------------------------------------- lifecycle under any coordinates
\* One index mapped, detached, reattached and queried in any order, with
\* probes inside the unit square, straddling its edge and far outside it.
LifecycleLayouts == {l \in AllLayouts : l \in {<<1>>, <<2, 3>>}}

LifecycleClosestKeys ==
    {<<0, 6 * Tenth, Tenth>>, <<-Tenth, 5 * Tenth, 3 * Tenth>>,
     <<2 * Unit, -Unit, Tenth>>}

LifecycleAreaKeys == {area_key_of(k) : k \in LifecycleClosestKeys}

LifecycleRadiusKeys == LifecycleClosestKeys

LifecycleNext ==
    \/ \E lights_per_row \in LifecycleLayouts : MapLEDsInZigzag(lights_per_row)
    \/ SaveQuadtreeValuesInList
    \/ RestoreQuadtree
    \/ ClearCaches
    \/ \E key \in LifecycleAreaKeys : GetLEDsInArea(key)
    \/ \E key \in LifecycleRadiusKeys : GetLEDsInRadius(key)
    \/ \E key \in LifecycleClosestKeys : GetClosestLEDIndex(key)

LifecycleSpec == Init /\ [][LifecycleNext]_<<vars, others>>

\* The centre of a query lies outside the unit square.
OutOfRange(key) == key[1] < 0 \/ key[1] > Unit \/ key[2] < 0 \/ key[2] > Unit

\* C21: the point structure and the saved list are never both absent, and no
\* detach, reattach or query fails on a missing structure, whatever the
\* coordinates.
C21_NeverBothAbsent ==
    /\ ~(quadtree = None /\ saved_values = None)
    /\ ~ret.err

\* A query off the unit square consulted a detached index.
C21_Witness ==
    /\ ret.op \in {"area", "radius", "closest"}
    /\ OutOfRange(ret.key)
    /\ WasDetached
    /\ ~ret.hit
    /\ ~ret.inner_hit
    /\ ~ret.err
    /\ quadtree # None

====
